---- MODULE Spec2Model ----
(***************************************************************************)
(* A model of the sequence-to-label training toolkit:                      *)
(*   - scripts/python/train_seq_to_label.py : the CLI and train()          *)
(*   - lib/nn/attention.py                  : Attention                    *)
(*   - lib/utils.py                         : resplit_datasets, pad_tensor,*)
(*                                            pad_batch,                   *)
(*                                            get_total_parameters         *)
(* Each component has its own specification (SpecTrain, SpecAttention,     *)
(* SpecResplit, SpecPad, SpecParams); the variables of the other           *)
(* components stay at their initial value.                                 *)
(***************************************************************************)
EXTENDS Integers, Sequences, FiniteSets, TLC

VARIABLES
    \* ---- train_seq_to_label.py
    entry,           \* "cli": the script was run; "call": train() was called
    pc,              \* position in the script / in train()
    argv,            \* the parsed --checkpoint_path (None or a path)
    fs,              \* the directories that exist
    checkpoint_path, \* train()'s argument
    save_directory,  \* train()'s argument
    checkpoint,      \* what setup_training returned
    text_encoder,
    label_encoder,
    model,
    optimizer,
    epochs,          \* train()'s argument
    epoch,           \* the loop variable of line 145
    n_train,         \* mini-batches the train iterator yields per epoch
    n_dev,           \* mini-batches the dev iterator yields per epoch
    batch_i,         \* index of the current mini-batch
    calls,           \* the calls made so far, in order
    saved,           \* the checkpoints written so far, in order
    raised           \* the exception that ended the run ("" when none)

trainVars == <<entry, pc, argv, fs, checkpoint_path, save_directory, checkpoint,
               text_encoder, label_encoder, model, optimizer, epochs, epoch,
               n_train, n_dev, batch_i, calls, saved, raised>>

VARIABLES
    \* ---- lib/nn/attention.py
    att_pc,            \* "new", "constructed", "raised", "returned"
    attention_type,    \* the argument given to Attention.__init__
    shape,             \* <<batch_size, output_len, input_len>>
    attention,         \* the module (None until constructed)
    input_arg,         \* forward's input_ as the caller passed it
    context,           \* forward's context
    attention_weights, \* forward's second result
    mix,
    combined,
    output             \* forward's first result

attVars == <<att_pc, attention_type, shape, attention, input_arg, context,
             attention_weights, mix, combined, output>>

VARIABLES
    \* ---- lib/utils.py: resplit_datasets
    rs_pc,          \* the number of calls of resplit_datasets that have returned
    dataset,        \* the rows of the first argument
    other_dataset,  \* the rows of the second argument
    random_seed,    \* None or an integer
    cut,            \* None or a fraction
    rs_returns      \* what each call returned, in order

rsVars == <<rs_pc, dataset, other_dataset, random_seed, cut, rs_returns>>

VARIABLES
    \* ---- lib/utils.py: pad_tensor, pad_batch
    pad_pc,         \* "call", "returned", "raised"
    pad_args,       \* the function called and its arguments
    pad_return      \* what it returned

padVars == <<pad_pc, pad_args, pad_return>>

VARIABLES
    \* ---- lib/utils.py: get_total_parameters
    gp_pc,          \* "call", "returned"
    parameters,     \* model.parameters(): each a size and requires_grad
    gp_return       \* what get_total_parameters returned

gpVars == <<gp_pc, parameters, gp_return>>

VARIABLES
    \* ---- lib/utils.py: batch
    bt_items,       \* the items of the iterable, in order
    bt_n,           \* the chunk size
    slow,           \* the generator over an iterable without __len__
    fast            \* the generator over the same items with __len__

btVars == <<bt_items, bt_n, slow, fast>>

vars == <<trainVars, attVars, rsVars, padVars, gpVars, btVars>>

\* ------------------------------------------------------------------ values

\* Python's None, and a present value
None == [is_none |-> TRUE]
Some(x) == [is_none |-> FALSE, value |-> x]

\* ------------------------------------------------------------------ bounds

MaxEpochs == 2
MaxTrainBatches == 2
MaxDevBatches == 2
\* optimizer steps already taken by the run that wrote a loaded checkpoint
MaxCkptSteps == 2

\* ------------------------------------------------- paths and the file system

\* A path is the sequence of its components.
\* os.path.dirname: the path without its last component
Dirname(p) == SubSeq(p, 1, Len(p) - 1)

\* line 75-77: 'save/' joined with the script's name and the start time
DEFAULT_SAVE_DIRECTORY == <<"save", "train_seq_to_label_now">>

\* The checkpoint files that exist when the script starts: one in a directory
\* of an earlier run, one in the working directory.
ExistingCheckpoints == {<<"save", "run1", "checkpoint.pt">>, <<"checkpoint.pt">>}

Prefixes(p) == {SubSeq(p, 1, k) : k \in 1..Len(p)}

\* The directories that exist when the script starts
InitialDirs == UNION {Prefixes(Dirname(p)) : p \in ExistingCheckpoints}

\* os.makedirs(name) with exist_ok left at False: the exception it raises,
\* "" when it creates the directory
MakedirsError(dirs, name) ==
    IF name = <<>> THEN "FileNotFoundError"
    ELSE IF name \in dirs THEN "FileExistsError"
    ELSE ""

MakedirsResult(dirs, name) ==
    IF MakedirsError(dirs, name) = "" THEN dirs \cup Prefixes(name) ELSE dirs

\* the variables train_seq_to_label.py does not touch
notTrainVars == <<attVars, rsVars, padVars, gpVars, btVars>>

\* the variables lib/nn/attention.py does not touch
notAttVars == <<trainVars, rsVars, padVars, gpVars, btVars>>

\* the variables of the other components, for each function of lib/utils.py
notRsVars == <<trainVars, attVars, padVars, gpVars, btVars>>
notPadVars == <<trainVars, attVars, rsVars, gpVars, btVars>>
notGpVars == <<trainVars, attVars, rsVars, padVars, btVars>>
notBtVars == <<trainVars, attVars, rsVars, padVars, gpVars>>

\* ------------------------------------------------------- training: the values

\* line 86: the default of train()'s epochs argument, which the CLI uses
DefaultEpochs == 2

\* the tokens of the training split, and of the corpus a loaded checkpoint's
\* encoders were built from
TrainTokens == {"a", "b"}
CheckpointTokens == {"a", "b", "c"}

\* line 101-102: WordEncoder / IdentityEncoder built from the training split
NewEncoder(kind) == [kind |-> kind, vocab |-> TrainTokens]

\* line 112-114: a new SeqToLabel with every parameter drawn uniformly;
\* params counts the optimizer steps applied to the parameters, grad the
\* backward passes accumulated since the gradients were last zeroed
NewModel == [params |-> 0, grad |-> 0, mode |-> "train"]

\* line 130: Optimizer(Adam(params=params)); steps counts the steps Adam has
\* taken (its moment estimates), updates the calls of update()
NewOptimizer == [steps |-> 0, updates |-> 0]

\* lib.checkpoint.Checkpoint: what a checkpoint file written by an earlier
\* run holds (the keyword arguments of Checkpoint.save, line 166-172)
StoredCheckpoints ==
    {[model |-> [params |-> k, grad |-> 1, mode |-> "train"],
      optimizer |-> [steps |-> k, updates |-> u],
      input_encoder |-> [kind |-> "WordEncoder", vocab |-> v],
      output_encoder |-> [kind |-> "IdentityEncoder", vocab |-> v]]
        : k \in 1..MaxCkptSteps, u \in 0..1, v \in {TrainTokens, CheckpointTokens}}

\* lib.utils.setup_training: the loaded checkpoints it may return for a path
\* (None: no checkpoint to load)
SetupTrainingResults(path) ==
    IF path.is_none THEN {None} ELSE {Some(c) : c \in StoredCheckpoints}

\* line 98-102
InitTextEncoder(ckpt) ==
    IF ~ckpt.is_none THEN ckpt.value.input_encoder ELSE NewEncoder("WordEncoder")

InitLabelEncoder(ckpt) ==
    IF ~ckpt.is_none THEN ckpt.value.output_encoder ELSE NewEncoder("IdentityEncoder")

\* line 109-114
InitModelValue(ckpt) ==
    IF ~ckpt.is_none THEN ckpt.value.model ELSE NewModel

\* line 127-130: the optimizer is constructed whether or not a checkpoint was
\* loaded
InitOptimizerValue(ckpt) == NewOptimizer

\* the loop body without its zero_grad
TrainSeq_NoZeroGrad == <<"forward", "loss", "backward", "step">>

\* line 157-164: the body of the training loop, in program order
TrainSeq == <<"zero_grad", "forward", "loss", "backward", "step">>

\* the evaluation directly after the training loop, no checkpoint written
AfterTrainLoop_NoSave == "eval_start"

\* line 166: the statement that follows the training loop
AfterTrainLoop == "save"

\* line 175: the statement that follows Checkpoint.save
AfterSave == "eval_start"

\* the model is left in training mode for the evaluation
EvalModeValue_Train == "train"

\* line 175: model.train(mode=False)
EvalModeValue == "eval"

\* line 147: model.train(mode=True)
TrainModeValue == "train"

IndexOf(seq, x) == CHOOSE i \in 1..Len(seq) : seq[i] = x

Call(op, kind) == [op |-> op, kind |-> kind, epoch |-> epoch, batch |-> batch_i]

\* ------------------------------------------------------------ idle components

EmptyTensor == <<>>

AttentionIdle ==
    /\ att_pc = "idle"
    /\ attention_type = ""
    /\ shape = <<0, 0, 0>>
    /\ attention = None
    /\ input_arg = EmptyTensor
    /\ context = EmptyTensor
    /\ attention_weights = EmptyTensor
    /\ mix = EmptyTensor
    /\ combined = EmptyTensor
    /\ output = EmptyTensor

ResplitIdle ==
    /\ rs_pc = 0
    /\ dataset = <<>>
    /\ other_dataset = <<>>
    /\ random_seed = None
    /\ cut = None
    /\ rs_returns = <<>>

PadIdle ==
    /\ pad_pc = "idle"
    /\ pad_args = None
    /\ pad_return = None

ParamsIdle ==
    /\ gp_pc = "idle"
    /\ parameters = <<>>
    /\ gp_return = 0

BatchIdle ==
    /\ bt_items = <<>>
    /\ bt_n = 0
    /\ slow = None
    /\ fast = None

UtilsIdle == ResplitIdle /\ PadIdle /\ ParamsIdle /\ BatchIdle

TrainIdle ==
    /\ entry = "idle"
    /\ pc = "idle"
    /\ argv = None
    /\ fs = {}
    /\ checkpoint_path = None
    /\ save_directory = None
    /\ checkpoint = None
    /\ text_encoder = None
    /\ label_encoder = None
    /\ model = None
    /\ optimizer = None
    /\ epochs = 0
    /\ epoch = 0
    /\ n_train = 0
    /\ n_dev = 0
    /\ batch_i = 0
    /\ calls = <<>>
    /\ saved = <<>>
    /\ raised = ""

\* ------------------------------------------------------ training: the actions

InitTrain ==
    /\ entry \in {"cli", "call"}
    /\ pc = IF entry = "cli" THEN "main" ELSE "setup_training"
    /\ fs = InitialDirs
    /\ IF entry = "cli"
       THEN /\ argv \in {None} \cup {Some(p) : p \in ExistingCheckpoints}
            /\ checkpoint_path = None
            /\ save_directory = None
            /\ epochs = DefaultEpochs
       ELSE \* train() called by another module, which made the directory
            /\ argv = None
            /\ checkpoint_path \in {None} \cup {Some(p) : p \in ExistingCheckpoints}
            /\ save_directory = Some(<<"save", "run1">>)
            /\ epochs \in 1..MaxEpochs
    /\ checkpoint = None
    /\ text_encoder = None
    /\ label_encoder = None
    /\ model = None
    /\ optimizer = None
    /\ epoch = 0
    /\ n_train \in 1..MaxTrainBatches
    /\ n_dev \in 1..MaxDevBatches
    /\ batch_i = 0
    /\ calls = <<>>
    /\ saved = <<>>
    /\ raised = ""
    /\ AttentionIdle
    /\ UtilsIdle

\* line 212-219
Main ==
    /\ pc = "main"
    /\ LET dir == IF ~argv.is_none THEN Dirname(argv.value)
                  ELSE DEFAULT_SAVE_DIRECTORY
           err == MakedirsError(fs, dir)
       IN  /\ fs' = MakedirsResult(fs, dir)
           /\ raised' = err
           /\ IF err # ""
              THEN /\ pc' = "raised"
                   /\ UNCHANGED <<checkpoint_path, save_directory>>
              ELSE /\ pc' = "setup_training"
                   /\ checkpoint_path' = argv
                   /\ save_directory' = Some(dir)
    /\ UNCHANGED notTrainVars
    /\ UNCHANGED <<entry, argv, checkpoint, text_encoder, label_encoder, model,
                   optimizer, epochs, epoch, n_train, n_dev, batch_i, calls, saved>>

\* line 89-90
SetupTraining ==
    /\ pc = "setup_training"
    /\ checkpoint' \in SetupTrainingResults(checkpoint_path)
    /\ pc' = "init_encoders"
    /\ UNCHANGED notTrainVars
    /\ UNCHANGED <<entry, argv, fs, checkpoint_path, save_directory, text_encoder,
                   label_encoder, model, optimizer, epochs, epoch, n_train,
                   n_dev, batch_i, calls, saved, raised>>

\* line 93-106
InitEncoders ==
    /\ pc = "init_encoders"
    /\ text_encoder' = InitTextEncoder(checkpoint)
    /\ label_encoder' = InitLabelEncoder(checkpoint)
    /\ pc' = "init_model"
    /\ UNCHANGED notTrainVars
    /\ UNCHANGED <<entry, argv, fs, checkpoint_path, save_directory, checkpoint,
                   model, optimizer, epochs, epoch, n_train, n_dev, batch_i,
                   calls, saved, raised>>

\* line 109-120
InitModel ==
    /\ pc = "init_model"
    /\ model' = InitModelValue(checkpoint)
    /\ pc' = "init_optimizer"
    /\ UNCHANGED notTrainVars
    /\ UNCHANGED <<entry, argv, fs, checkpoint_path, save_directory, checkpoint,
                   text_encoder, label_encoder, optimizer, epochs, epoch,
                   n_train, n_dev, batch_i, calls, saved, raised>>

\* line 123-142
InitOptimizer ==
    /\ pc = "init_optimizer"
    /\ optimizer' = InitOptimizerValue(checkpoint)
    /\ pc' = "epoch"
    /\ UNCHANGED notTrainVars
    /\ UNCHANGED <<entry, argv, fs, checkpoint_path, save_directory, checkpoint,
                   text_encoder, label_encoder, model, epochs, epoch, n_train,
                   n_dev, batch_i, calls, saved, raised>>

\* line 145-155: the head of the epoch loop
EpochStart ==
    /\ pc = "epoch"
    /\ epoch < epochs
    /\ model' = [model EXCEPT !.mode = TrainModeValue]
    /\ batch_i' = 0
    /\ pc' = TrainSeq[1]
    /\ UNCHANGED notTrainVars
    /\ UNCHANGED <<entry, argv, fs, checkpoint_path, save_directory, checkpoint,
                   text_encoder, label_encoder, optimizer, epochs, epoch,
                   n_train, n_dev, calls, saved, raised>>

\* the position after statement op of the loop body: the next statement, or
\* the next mini-batch, or the statement after the loop
AfterOp(op) ==
    LET i == IndexOf(TrainSeq, op)
    IN  IF i < Len(TrainSeq) THEN <<TrainSeq[i + 1], batch_i>>
        ELSE IF batch_i + 1 < n_train THEN <<TrainSeq[1], batch_i + 1>>
        ELSE <<AfterTrainLoop, batch_i>>

TrainOp(op, newModel, newOptimizer) ==
    /\ pc = op
    /\ model' = newModel
    /\ optimizer' = newOptimizer
    /\ calls' = Append(calls, Call(op, "train"))
    /\ pc' = AfterOp(op)[1]
    /\ batch_i' = AfterOp(op)[2]
    /\ UNCHANGED notTrainVars
    /\ UNCHANGED <<entry, argv, fs, checkpoint_path, save_directory, checkpoint,
                   text_encoder, label_encoder, epochs, epoch, n_train, n_dev,
                   saved, raised>>

\* line 157-158
ZeroGrad == TrainOp("zero_grad", [model EXCEPT !.grad = 0], optimizer)

\* line 159
Forward == TrainOp("forward", model, optimizer)

\* line 160
Loss == TrainOp("loss", model, optimizer)

\* line 163
Backward == TrainOp("backward", [model EXCEPT !.grad = @ + 1], optimizer)

\* line 164
OptimizerStep ==
    TrainOp("step", [model EXCEPT !.params = @ + 1],
            [optimizer EXCEPT !.steps = @ + 1])

\* line 166-172
SaveCheckpoint ==
    /\ pc = "save"
    /\ saved' = Append(saved, [model |-> model, optimizer |-> optimizer,
                               input_encoder |-> text_encoder,
                               output_encoder |-> label_encoder,
                               save_directory |-> save_directory,
                               epoch |-> epoch])
    /\ calls' = Append(calls, Call("save", "checkpoint"))
    /\ pc' = AfterSave
    /\ UNCHANGED notTrainVars
    /\ UNCHANGED <<entry, argv, fs, checkpoint_path, save_directory, checkpoint,
                   text_encoder, label_encoder, model, optimizer, epochs,
                   epoch, n_train, n_dev, batch_i, raised>>

\* line 175-183
EvalStart ==
    /\ pc = "eval_start"
    /\ model' = [model EXCEPT !.mode = EvalModeValue]
    /\ batch_i' = 0
    /\ calls' = Append(calls, [Call("evaluate", "dev") EXCEPT !.batch = 0])
    /\ pc' = "dev_batch"
    /\ UNCHANGED notTrainVars
    /\ UNCHANGED <<entry, argv, fs, checkpoint_path, save_directory, checkpoint,
                   text_encoder, label_encoder, optimizer, epochs, epoch,
                   n_train, n_dev, saved, raised>>

\* line 184-191
DevBatch ==
    /\ pc = "dev_batch"
    /\ calls' = Append(calls, Call("forward", "dev"))
    /\ IF batch_i + 1 < n_dev
       THEN /\ batch_i' = batch_i + 1
            /\ pc' = "dev_batch"
       ELSE /\ batch_i' = batch_i
            /\ pc' = "report"
    /\ UNCHANGED notTrainVars
    /\ UNCHANGED <<entry, argv, fs, checkpoint_path, save_directory, checkpoint,
                   text_encoder, label_encoder, model, optimizer, epochs,
                   epoch, n_train, n_dev, saved, raised>>

\* line 193-198, and the step of the epoch loop
Report ==
    /\ pc = "report"
    /\ optimizer' = [optimizer EXCEPT !.updates = @ + 1]
    /\ epoch' = epoch + 1
    /\ pc' = "epoch"
    /\ UNCHANGED notTrainVars
    /\ UNCHANGED <<entry, argv, fs, checkpoint_path, save_directory, checkpoint,
                   text_encoder, label_encoder, model, epochs, n_train, n_dev,
                   batch_i, calls, saved, raised>>

\* line 200
TrainingDone ==
    /\ pc = "epoch"
    /\ epoch = epochs
    /\ pc' = "done"
    /\ UNCHANGED notTrainVars
    /\ UNCHANGED <<entry, argv, fs, checkpoint_path, save_directory, checkpoint,
                   text_encoder, label_encoder, model, optimizer, epochs,
                   epoch, n_train, n_dev, batch_i, calls, saved, raised>>

NextTrain ==
    \/ Main
    \/ SetupTraining
    \/ InitEncoders
    \/ InitModel
    \/ InitOptimizer
    \/ EpochStart
    \/ ZeroGrad
    \/ Forward
    \/ Loss
    \/ Backward
    \/ OptimizerStep
    \/ SaveCheckpoint
    \/ EvalStart
    \/ DevBatch
    \/ Report
    \/ TrainingDone

SpecTrain == InitTrain /\ [][NextTrain]_vars

\* ------------------------------------------------------- training: the claims

IsTrainCall(c) == c.kind = "train"

TrainCalls == SelectSeq(calls, IsTrainCall)

FiveSteps == <<"zero_grad", "forward", "loss", "backward", "step">>

\* what a run of `epochs` epochs of `n_train` mini-batches is to call
ExpectedTrainCalls ==
    [k \in 1..(epochs * n_train * 5) |->
        [op |-> FiveSteps[((k - 1) % 5) + 1], kind |-> "train",
         epoch |-> (k - 1) \div (5 * n_train),
         batch |-> ((k - 1) \div 5) % n_train]]

\* C1: in every epoch and for every training mini-batch the calls are zero_grad,
\* forward, loss, backward, optimizer step, in this order and once each: the
\* training calls made so far are a prefix of that schedule, a finished run has
\* made all of it, and an optimizer step is taken with the gradients of exactly
\* one backward pass since they were zeroed.
C1_BatchStepOrder ==
    /\ Len(TrainCalls) <= Len(ExpectedTrainCalls)
    /\ \A k \in 1..Len(TrainCalls) : TrainCalls[k] = ExpectedTrainCalls[k]
    /\ pc = "done" => Len(TrainCalls) = Len(ExpectedTrainCalls)
    /\ pc = "step" => model.grad = 1

C1_Witness ==
    /\ pc = "done"
    /\ epochs = 2
    /\ n_train = 2
    /\ Len(TrainCalls) = 20

IsSave(c) == c.op = "save"
IsEvaluate(c) == c.op = "evaluate"

\* C2: a checkpoint is saved once per epoch, directly after the optimizer step
\* of the epoch's last training mini-batch and directly before the epoch's
\* evaluation; every evaluation directly follows a save; a finished run of E
\* epochs has made E saves and E evaluations.
C2_SaveOncePerEpoch ==
    /\ \A i \in 1..Len(calls) :
          calls[i].op = "save" =>
              /\ i > 1
              /\ calls[i - 1] = [op |-> "step", kind |-> "train",
                                 epoch |-> calls[i].epoch, batch |-> n_train - 1]
              /\ i < Len(calls) =>
                    /\ calls[i + 1].op = "evaluate"
                    /\ calls[i + 1].epoch = calls[i].epoch
              /\ \A j \in 1..Len(calls) :
                    (calls[j].op = "save" /\ calls[j].epoch = calls[i].epoch) => j = i
    /\ \A i \in 1..Len(calls) :
          calls[i].op = "evaluate" => (i > 1 /\ calls[i - 1].op = "save")
    /\ Len(saved) = Len(SelectSeq(calls, IsSave))
    /\ \A i \in 1..Len(saved) : saved[i].epoch = i - 1
    /\ pc = "done" =>
          /\ Len(SelectSeq(calls, IsSave)) = epochs
          /\ Len(SelectSeq(calls, IsEvaluate)) = epochs

C2_Witness ==
    /\ pc = "done"
    /\ epochs = 2
    /\ Len(saved) = 2
    /\ Len(SelectSeq(calls, IsEvaluate)) = 2

\* train() has built its encoders, model and optimizer and not yet trained
Initialised == pc = "epoch" /\ epoch = 0

\* C3: resumed from a loaded checkpoint, training continues with the
\* checkpoint's model, optimizer and encoders; without a checkpoint the
\* encoders are built from the training split and the model is new.
C3_ResumeFromCheckpoint ==
    Initialised =>
        IF ~checkpoint.is_none
        THEN /\ model = checkpoint.value.model
             /\ optimizer = checkpoint.value.optimizer
             /\ text_encoder = checkpoint.value.input_encoder
             /\ label_encoder = checkpoint.value.output_encoder
        ELSE /\ model = NewModel
             /\ text_encoder = NewEncoder("WordEncoder")
             /\ label_encoder = NewEncoder("IdentityEncoder")

\* C4: the script run with --checkpoint_path P, P an existing checkpoint file,
\* does not raise before training starts and reaches train() with
\* checkpoint_path = P and save_directory = the directory of P; run without
\* the argument it creates the default save directory and reaches train()
\* with no checkpoint.
C4_CliResumes ==
    (entry = "cli" /\ pc # "main") =>
        /\ raised = ""
        /\ checkpoint_path = argv
        /\ IF ~argv.is_none
           THEN save_directory = Some(Dirname(argv.value))
           ELSE /\ save_directory = Some(DEFAULT_SAVE_DIRECTORY)
                /\ DEFAULT_SAVE_DIRECTORY \in fs

\* the positions from the checkpoint save of an epoch to the first training
\* mini-batch of the next epoch, or to the end of training
AfterSavePositions == {"eval_start", "dev_batch", "report", "epoch", "done"}

LastSaved == saved[Len(saved)]

\* C11: the evaluation leaves the parameters alone: from the checkpoint save of
\* an epoch to the first training mini-batch of the next epoch (or the end of
\* training) the parameters, the gradients and the optimizer's steps are those
\* that were saved, and no zero_grad, backward or optimizer step is called; no
\* training call of an epoch follows that epoch's save; the model is in
\* training mode at every statement of a training mini-batch and in
\* evaluation mode at every dev mini-batch, where only forward is called.
C11_EvaluationLeavesParameters ==
    /\ (pc \in AfterSavePositions /\ saved # <<>>) =>
          /\ model.params = LastSaved.model.params
          /\ model.grad = LastSaved.model.grad
          /\ optimizer.steps = LastSaved.optimizer.steps
          /\ calls[Len(calls)].op \in {"save", "evaluate", "forward"}
          /\ calls[Len(calls)].kind \in {"checkpoint", "dev"}
    /\ \A i \in 1..Len(calls) : \A j \in (i + 1)..Len(calls) :
          (calls[i].op = "save" /\ calls[j].kind = "train") =>
              calls[j].epoch > calls[i].epoch
    /\ \A i \in 1..Len(calls) :
          calls[i].kind = "dev" => calls[i].op \in {"evaluate", "forward"}
    /\ pc \in {"zero_grad", "forward", "loss", "backward", "step"} =>
          model.mode = "train"
    /\ pc \in {"dev_batch", "report"} => model.mode = "eval"

C11_Witness ==
    /\ pc = "dev_batch"
    /\ epoch = 1
    /\ batch_i = 1
    /\ model.mode = "eval"
    /\ Len(saved) = 2
    /\ model.params = 2 * n_train
    /\ model.params = LastSaved.model.params

\* ------------------------------------------------------ attention: the values

MaxInputLen == 2

\* <<batch_size, output_len>> of the inputs forward is called with
BatchShapes == {<<1, 1>>, <<1, 2>>, <<2, 1>>}

\* the feature vectors (dimensions = 1)
Vecs == {<<0>>, <<1>>}

\* the weights linear_in (dimensions x dimensions) may have learned
LinearInWeights == {<<<<1>>>>, <<<<2>>>>}

\* the weights linear_out (dimensions x 2*dimensions) may have learned
LinearOutWeights == {<<<<1, 2>>>>}

\* the attention_type arguments a caller may give
AttentionTypeArgs == {"dot", "general", "concat"}

\* every type is accepted
ValidAttentionTypes_Any == {"dot", "general", "concat"}

\* line 28: the types the assertion accepts
ValidAttentionTypes == {"dot", "general"}

\* line 61: -float('inf'), below every score
NegInf == -1000

\* exp(-k) for k = 0, 1, 2, ... in thousandths
ExpTable == <<1000, 368, 135, 50, 18, 7, 2>>

\* exp(x - m) in thousandths, for x <= m; exp(-inf) = 0
Exp(x, m) == IF x = NegInf THEN 0 ELSE ExpTable[m - x + 1]

\* a quotient num/den; 0/0 is NaN
Rat(n) == [num |-> n, den |-> 1]
NaN == [num |-> 0, den |-> 0]
IsNaN(q) == q.den = 0
RatAdd(a, b) == [num |-> a.num * b.den + b.num * a.den, den |-> a.den * b.den]
RatScale(k, a) == [num |-> k * a.num, den |-> a.den]

RECURSIVE SumSeq(_)
SumSeq(q) == IF q = <<>> THEN 0 ELSE Head(q) + SumSeq(Tail(q))

RECURSIVE RatSum(_)
RatSum(q) == IF q = <<>> THEN Rat(0) ELSE RatAdd(Head(q), RatSum(Tail(q)))

MaxSeq(q) == CHOOSE m \in {q[i] : i \in 1..Len(q)} : \A i \in 1..Len(q) : q[i] <= m

Dot(x, y) == SumSeq([k \in 1..Len(x) |-> x[k] * y[k]])

\* nn.Linear without bias: W x
Linear(W, x) == [r \in 1..Len(W) |-> Dot(W[r], x)]

\* the tensors [batch_size, n, dimensions]
Tensors(b, n) == [1..b -> [1..n -> Vecs]]

\* the masks [batch_size, output_len, input_len]
Masks(sh) == [1..sh[1] -> [1..sh[2] -> [1..sh[3] -> BOOLEAN]]]

\* line 27-35: the module __init__ leaves
NewAttention(type, mask, win, wout) ==
    [is_none |-> FALSE,
     attention_type |-> type,
     linear_in |-> IF type = "general" THEN Some(win) ELSE None,
     linear_out |-> wout,
     mask |-> mask]

\* line 52-55: input_ is rebound to linear_in(input_) for the general type
ProjectedInput(att, inp) ==
    IF att.attention_type = "general"
    THEN [b \in 1..Len(inp) |-> [o \in 1..Len(inp[b]) |->
              Linear(att.linear_in.value, inp[b][o])]]
    ELSE inp

\* line 59: torch.bmm(input_, context.transpose(1, 2))
Scores(inp, ctx) ==
    [b \in 1..Len(inp) |-> [o \in 1..Len(inp[b]) |-> [i \in 1..Len(ctx[b]) |->
        Dot(inp[b][o], ctx[b][i])]]]

\* the mask is not applied
MaskedFill_Ignored(scores, mask) == scores

\* line 60-61: masked_fill_(self.mask, -inf)
MaskedFill(scores, mask) ==
    IF mask.is_none THEN scores
    ELSE [b \in 1..Len(scores) |-> [o \in 1..Len(scores[b]) |->
            [i \in 1..Len(scores[b][o]) |->
                IF mask.value[b][o][i] THEN NegInf ELSE scores[b][o][i]]]]

\* line 65: softmax of one row: exp(x - max) over their sum; a row of -inf
\* only gives -inf - (-inf) = NaN at every position
Softmax(row) ==
    LET m == MaxSeq(row)
        e == [i \in 1..Len(row) |-> Exp(row[i], m)]
    IN  IF m = NegInf THEN [i \in 1..Len(row) |-> NaN]
        ELSE [i \in 1..Len(row) |-> [num |-> e[i], den |-> SumSeq(e)]]

\* line 64-66: the softmax over the context positions of every row
AttentionWeights(scores) ==
    [b \in 1..Len(scores) |-> [o \in 1..Len(scores[b]) |-> Softmax(scores[b][o])]]

\* line 70: torch.bmm(attention_weights, context)
Mix(w, ctx) ==
    [b \in 1..Len(w) |-> [o \in 1..Len(w[b]) |-> [d \in 1..Len(ctx[b][1]) |->
        [num |-> SumSeq([i \in 1..Len(ctx[b]) |-> w[b][o][i].num * ctx[b][i][d]]),
         den |-> w[b][o][1].den]]]]

RatVec(x) == [k \in 1..Len(x) |-> Rat(x[k])]

\* line 73-74: torch.cat((mix, input_), dim=2)
Combined(m, inp) ==
    [b \in 1..Len(m) |-> [o \in 1..Len(m[b]) |-> m[b][o] \o RatVec(inp[b][o])]]

\* line 79: tanh, which the model does not compute
Tanh(x) == [tanh_of |-> x]

\* line 78-79: tanh(linear_out(combined))
Output(W, c) ==
    [b \in 1..Len(c) |-> [o \in 1..Len(c[b]) |-> [r \in 1..Len(W) |->
        Tanh(RatSum([k \in 1..Len(W[r]) |-> RatScale(W[r][k], c[b][o][k])]))]]]

\* ----------------------------------------------------- attention: the actions

InitAttention ==
    /\ att_pc = "new"
    /\ attention_type = ""
    /\ shape \in {<<bs[1], bs[2], il>> : bs \in BatchShapes, il \in 1..MaxInputLen}
    /\ attention = None
    /\ input_arg = EmptyTensor
    /\ context = EmptyTensor
    /\ attention_weights = EmptyTensor
    /\ mix = EmptyTensor
    /\ combined = EmptyTensor
    /\ output = EmptyTensor
    /\ TrainIdle
    /\ UtilsIdle

\* line 17-35
Construct ==
    /\ att_pc = "new"
    /\ \E type \in AttentionTypeArgs,
          mask \in {None} \cup {Some(m) : m \in Masks(shape)},
          win \in LinearInWeights, wout \in LinearOutWeights :
          /\ attention_type' = type
          /\ IF type \in ValidAttentionTypes
             THEN /\ attention' = NewAttention(type, mask, win, wout)
                  /\ att_pc' = "constructed"
             ELSE \* AssertionError: the caller gets no module
                  /\ attention' = None
                  /\ att_pc' = "raised"
    /\ UNCHANGED <<shape, input_arg, context, attention_weights, mix, combined,
                   output>>
    /\ UNCHANGED notAttVars

\* line 37-81
AttentionForward ==
    /\ att_pc = "constructed"
    /\ \E inp \in Tensors(shape[1], shape[2]), ctx \in Tensors(shape[1], shape[3]) :
          LET input_ == ProjectedInput(attention, inp)
              attention_scores == MaskedFill(Scores(input_, ctx), attention.mask)
              weights == AttentionWeights(attention_scores)
              mixed == Mix(weights, ctx)
              comb == Combined(mixed, input_)
          IN  /\ input_arg' = inp
              /\ context' = ctx
              /\ attention_weights' = weights
              /\ mix' = mixed
              /\ combined' = comb
              /\ output' = Output(attention.linear_out, comb)
    /\ att_pc' = "returned"
    /\ UNCHANGED <<attention_type, shape, attention>>
    /\ UNCHANGED notAttVars

NextAttention ==
    \/ Construct
    \/ AttentionForward

SpecAttention == InitAttention /\ [][NextAttention]_vars

\* ------------------------------------------------------ attention: the claims

\* C5: constructing Attention with a type other than "dot" or "general" raises
\* and leaves the caller without a module (no fallback to a default type);
\* constructing it with "dot" or "general" does not raise, and the module has
\* the type that was asked for.
C5_InvalidTypeRaises ==
    /\ att_pc = "raised" =>
          /\ attention_type \notin {"dot", "general"}
          /\ attention = None
    /\ att_pc \in {"constructed", "returned"} =>
          /\ attention_type \in {"dot", "general"}
          /\ ~attention.is_none
          /\ attention.attention_type = attention_type

C5_Witness ==
    /\ att_pc = "raised"
    /\ attention_type = "concat"
    /\ attention = None

\* C6: for both attention types, what is concatenated with the mixture is
\* the input as the caller passed it, and the output is the tanh of the final
\* projection of that concatenation.
C6_ConcatOriginalInput ==
    att_pc = "returned" =>
        /\ combined = Combined(mix, input_arg)
        /\ output = Output(attention.linear_out, Combined(mix, input_arg))

Masked(b, o, i) == ~attention.mask.is_none /\ attention.mask.value[b][o][i]

RowSumsToOne(row) ==
    /\ \A i \in 1..Len(row) : row[i].den > 0 /\ row[i].num >= 0
    /\ \A i \in 1..Len(row) : row[i].den = row[1].den
    /\ SumSeq([i \in 1..Len(row) |-> row[i].num]) = row[1].den

\* C7 as stated: with or without a mask every row of the attention weights is
\* non-negative and sums to 1, and every masked position has weight 0.
C7_WeightsSumToOne ==
    att_pc = "returned" =>
        \A b \in 1..shape[1], o \in 1..shape[2] :
            /\ RowSumsToOne(attention_weights[b][o])
            /\ \A i \in 1..shape[3] :
                  Masked(b, o, i) => attention_weights[b][o][i].num = 0

\* C7 as amended: every row in which the mask leaves a position unmarked (every
\* row when no mask is set) is non-negative and sums to 1 with weight 0 at the
\* marked positions; a row whose positions are all marked is NaN throughout.
C7_WeightsSumToOneUnlessAllMasked ==
    att_pc = "returned" =>
        \A b \in 1..shape[1], o \in 1..shape[2] :
            IF \E i \in 1..shape[3] : ~Masked(b, o, i)
            THEN /\ RowSumsToOne(attention_weights[b][o])
                 /\ \A i \in 1..shape[3] :
                       Masked(b, o, i) => attention_weights[b][o][i].num = 0
            ELSE \A i \in 1..shape[3] : IsNaN(attention_weights[b][o][i])

C7_Witness ==
    /\ att_pc = "returned"
    /\ shape = <<1, 2, 2>>
    /\ ~attention.mask.is_none
    /\ attention.mask.value[1] = <<<<TRUE, TRUE>>, <<FALSE, TRUE>>>>
    /\ IsNaN(attention_weights[1][1][1])
    /\ attention_weights[1][2][1].num = attention_weights[1][2][1].den
    /\ attention_weights[1][2][2].num = 0

\* ------------------------------------------------------- resplit_datasets

MaxRows == 2

\* the integer seeds a caller may give
Seeds == {0, 1, 123}

\* the cuts a caller may give, in quarters: some below 0 and above 1
CutQuarters == -1..5

\* the states of the generator random.Random(seed) draws from
RngStates == 0..15

\* random.Random(seed): the generator's state after seeding with an integer
SeedState(seed) == seed % 16

\* the generator's next state: a fixed function of its state
RngNext(st) == (5 * st + 3) % 16

\* randbelow(n), drawn from state st: a number in 0..n-1
RandBelow(st, n) == st % n

Swap(x, i, j) == [x EXCEPT ![i] = x[j], ![j] = x[i]]

\* random.shuffle: for i from the last index down to the second, swap x[i]
\* with x[j], j drawn from the positions up to i
RECURSIVE ShuffleFrom(_, _, _)
ShuffleFrom(x, i, st) ==
    IF i < 2 THEN x
    ELSE ShuffleFrom(Swap(x, i, RandBelow(st, i) + 1), i - 1, RngNext(st))

\* the shuffle draws from the operating system's entropy whatever the seed
SeededShuffle_Unseeded(x, seed, entropy) == ShuffleFrom(x, Len(x), entropy)

\* line 40: random.Random(random_seed).shuffle(concat); a seed of None seeds
\* the generator from the operating system's entropy
SeededShuffle(x, seed, entropy) ==
    ShuffleFrom(x, Len(x), IF seed.is_none THEN entropy ELSE SeedState(seed.value))

\* Python's round() of n/d, d > 0: to the nearest integer, a half to the even one
RoundHalfEven(n, d) ==
    LET q == n \div d
        r == n - q * d
    IN  IF 2 * r < d THEN q
        ELSE IF 2 * r > d THEN q + 1
        ELSE IF q % 2 = 0 THEN q ELSE q + 1

Min(a, b) == IF a < b THEN a ELSE b
Max(a, b) == IF a > b THEN a ELSE b

\* line 44: max(min(round(len(concat) * cut), len(concat)), 0)
CutIndex(n, c) == Max(Min(RoundHalfEven(n * c.num, c.den), n), 0)

\* line 36-45
Resplit(d, o, seed, c, entropy) ==
    LET concat == SeededShuffle(d \o o, seed, entropy)
        at == IF c.is_none THEN Len(d) ELSE CutIndex(Len(concat), c.value)
    IN  <<SubSeq(concat, 1, at), SubSeq(concat, at + 1, Len(concat))>>

InitResplit ==
    /\ rs_pc = 0
    /\ \E n \in 0..MaxRows, m \in 0..MaxRows :
          /\ dataset = [i \in 1..n |-> i]
          /\ other_dataset = [i \in 1..m |-> n + i]
    /\ random_seed \in {None} \cup {Some(sd) : sd \in Seeds}
    /\ cut \in {None} \cup {Some([num |-> k, den |-> 4]) : k \in CutQuarters}
    /\ rs_returns = <<>>
    /\ TrainIdle
    /\ AttentionIdle
    /\ PadIdle
    /\ ParamsIdle
    /\ BatchIdle

\* line 20-45: one call; the same arguments are given to every call
ResplitCall ==
    /\ rs_pc < 2
    /\ \E entropy \in RngStates :
          rs_returns' = Append(rs_returns,
                               Resplit(dataset, other_dataset, random_seed, cut, entropy))
    /\ rs_pc' = rs_pc + 1
    /\ UNCHANGED <<dataset, other_dataset, random_seed, cut>>
    /\ UNCHANGED notRsVars

NextResplit == ResplitCall

SpecResplit == InitResplit /\ [][NextResplit]_vars

\* C8 as stated: two calls with the same datasets, the same random_seed (None
\* included) and the same cut return the same pair of datasets.
C8_ResplitDeterministic ==
    rs_pc = 2 => rs_returns[1] = rs_returns[2]

\* C8 as amended: two calls with the same datasets, the same random_seed other
\* than None and the same cut (absent or given) return the same pair of
\* datasets, rows in the same order.
C8_ResplitDeterministicWhenSeeded ==
    (rs_pc = 2 /\ ~random_seed.is_none) => rs_returns[1] = rs_returns[2]

C8_Witness ==
    /\ rs_pc = 2
    /\ random_seed = Some(123)
    /\ cut = Some([num |-> 2, den |-> 4])
    /\ Len(dataset) = 2
    /\ Len(other_dataset) = 1
    /\ rs_returns[1] = rs_returns[2]
    /\ rs_returns[1][1] # dataset
    /\ Len(rs_returns[1][1]) = 2

\* ------------------------------------------------------ pad_tensor, pad_batch

MaxRowLen == 2
MaxBatchRows == 2
MaxPadLength == 3

\* lib.text_encoders.PADDING_INDEX
PADDING_INDEX == 0

\* the token indices of a row
Tokens == {0, 5}

\* the rows (1-dimensional LongTensors) of at most n elements
Rows(n) == UNION {[1..k -> Tokens] : k \in 0..n}

\* the lists of at most n rows
Batches(n) == UNION {[1..k -> Rows(MaxRowLen)] : k \in 0..n}

\* line 232: n * [PADDING_INDEX]; a list repeated a negative number of times
\* is empty
Repeat(n, x) == [k \in 1..Max(n, 0) |-> x]

\* pads with length elements instead of the missing ones
PadTensor_Full(tensor, length) == tensor \o Repeat(length, PADDING_INDEX)

\* line 223-233
PadTensor(tensor, length) ==
    LET n_padding == length - Len(tensor)
        padding == Repeat(n_padding, PADDING_INDEX)
    IN  tensor \o padding

MaxOfSeq(q) == CHOOSE m \in {q[i] : i \in 1..Len(q)} : \A i \in 1..Len(q) : q[i] <= m

\* line 245-248; max() of an empty list raises ValueError
PadBatch(rows) ==
    LET lengths == [i \in 1..Len(rows) |-> Len(rows[i])]
    IN  IF lengths = <<>> THEN [raised |-> "ValueError"]
        ELSE [raised |-> "",
              padded |-> [i \in 1..Len(rows) |-> PadTensor(rows[i], MaxOfSeq(lengths))],
              lengths |-> lengths]

InitPad ==
    /\ pad_pc = "call"
    /\ pad_args \in {[fn |-> "pad_batch", rows |-> b] : b \in Batches(MaxBatchRows)}
               \cup {[fn |-> "pad_tensor", tensor |-> t, length |-> n] :
                        t \in Rows(MaxRowLen), n \in 0..MaxPadLength}
    /\ pad_return = None
    /\ TrainIdle
    /\ AttentionIdle
    /\ ResplitIdle
    /\ ParamsIdle
    /\ BatchIdle

\* line 236-248
PadBatchCall ==
    /\ pad_pc = "call"
    /\ pad_args.fn = "pad_batch"
    /\ pad_return' = PadBatch(pad_args.rows)
    /\ pad_pc' = IF PadBatch(pad_args.rows).raised = "" THEN "returned" ELSE "raised"
    /\ UNCHANGED pad_args
    /\ UNCHANGED notPadVars

\* line 223-233
PadTensorCall ==
    /\ pad_pc = "call"
    /\ pad_args.fn = "pad_tensor"
    /\ pad_return' = PadTensor(pad_args.tensor, pad_args.length)
    /\ pad_pc' = "returned"
    /\ UNCHANGED pad_args
    /\ UNCHANGED notPadVars

NextPad ==
    \/ PadBatchCall
    \/ PadTensorCall

SpecPad == InitPad /\ [][NextPad]_vars

\* the result of pad_batch is as the claim describes
PadBatchCorrect ==
    LET rows == pad_args.rows
        padded == pad_return.padded
        lengths == pad_return.lengths
    IN  /\ Len(lengths) = Len(rows)
        /\ Len(padded) = Len(rows)
        /\ \A i \in 1..Len(rows) :
              /\ lengths[i] = Len(rows[i])
              /\ Len(padded[i]) >= lengths[i]
              /\ \A j \in 1..Len(rows) : Len(padded[i]) >= lengths[j]
              /\ \E j \in 1..Len(rows) : Len(padded[i]) = lengths[j]
              /\ SubSeq(padded[i], 1, lengths[i]) = rows[i]
              /\ \A k \in (lengths[i] + 1)..Len(padded[i]) : padded[i][k] = PADDING_INDEX

\* C9 as stated: what pad_batch returns for a list of sequences is the padded
\* rows and the original lengths (every padded row as long as the longest row,
\* starting with the row unchanged, PADDING_INDEX in every added position), and
\* pad_tensor(tensor, length) returns exactly `length` elements.
C9_PaddingLengths ==
    /\ (pad_pc = "returned" /\ pad_args.fn = "pad_batch") => PadBatchCorrect
    /\ (pad_pc = "returned" /\ pad_args.fn = "pad_tensor") =>
          Len(pad_return) = pad_args.length

\* C9 as amended: pad_batch returns the padded rows and the original lengths
\* as stated, for every list that has a row (max() of no lengths raises
\* ValueError); pad_tensor(tensor, length) returns the tensor followed by
\* PADDING_INDEX up to `length` elements when length >= len(tensor), and the
\* tensor unchanged, longer than `length`, when length < len(tensor).
C9_PaddingLengthsAmended ==
    /\ pad_pc = "raised" => (pad_args.fn = "pad_batch" /\ pad_args.rows = <<>>)
    /\ (pad_pc # "call" /\ pad_args.fn = "pad_batch" /\ pad_args.rows # <<>>) =>
          (pad_pc = "returned" /\ PadBatchCorrect)
    /\ (pad_pc = "returned" /\ pad_args.fn = "pad_tensor") =>
          /\ Len(pad_return) = Max(pad_args.length, Len(pad_args.tensor))
          /\ SubSeq(pad_return, 1, Len(pad_args.tensor)) = pad_args.tensor
          /\ \A k \in (Len(pad_args.tensor) + 1)..Len(pad_return) :
                pad_return[k] = PADDING_INDEX

C9_Witness ==
    /\ pad_pc = "returned"
    /\ pad_args.fn = "pad_batch"
    /\ pad_args.rows = <<<<5>>, <<5, 5>>>>
    /\ pad_return.padded = <<<<5, PADDING_INDEX>>, <<5, 5>>>>
    /\ pad_return.lengths = <<1, 2>>

\* ------------------------------------------------------ get_total_parameters

MaxParams == 2

\* the sizes of a parameter tensor: 1, 2 or 3 dimensions of 1..3 elements
ParamSizes == UNION {[1..k -> 1..3] : k \in 1..3}

ParamLists == UNION {[1..k -> [size : ParamSizes, requires_grad : BOOLEAN]] : k \in 0..MaxParams}

\* line 220: the term a parameter adds to the sum
ParamCount(x) == IF Len(x.size) > 1 THEN x.size[1] * x.size[2] ELSE x.size[1]

\* line 219: filter(lambda p: p.requires_grad, model.parameters())
Trainable(ps) == SelectSeq(ps, LAMBDA q : q.requires_grad)

\* line 217-220
GetTotalParameters(ps) ==
    SumSeq([i \in 1..Len(Trainable(ps)) |-> ParamCount(Trainable(ps)[i])])

InitParams ==
    /\ gp_pc = "call"
    /\ parameters \in ParamLists
    /\ gp_return = 0
    /\ TrainIdle
    /\ AttentionIdle
    /\ ResplitIdle
    /\ PadIdle
    /\ BatchIdle

\* line 217-220
GetTotalParametersCall ==
    /\ gp_pc = "call"
    /\ gp_return' = GetTotalParameters(parameters)
    /\ gp_pc' = "returned"
    /\ UNCHANGED parameters
    /\ UNCHANGED notGpVars

NextParams == GetTotalParametersCall

SpecParams == InitParams /\ [][NextParams]_vars

RECURSIVE Product(_)
Product(q) == IF q = <<>> THEN 1 ELSE Head(q) * Product(Tail(q))

\* the number of scalar elements of the trainable parameters among ps
RECURSIVE TrainableElements(_)
TrainableElements(ps) ==
    IF ps = <<>> THEN 0
    ELSE (IF Head(ps).requires_grad THEN Product(Head(ps).size) ELSE 0)
         + TrainableElements(Tail(ps))

\* C10: get_total_parameters returns the number of scalar elements of all the
\* parameters with requires_grad true, whatever their number of dimensions;
\* the others contribute nothing.
C10_TotalTrainableParameters ==
    gp_pc = "returned" => gp_return = TrainableElements(parameters)

\* ---------------------------------------------------------------------- batch

MaxItems == 4
MaxChunk == 3

\* the chunk sizes a caller may give: batch() does not check n
ChunkSizes == -1..MaxChunk

\* the chunk is yielded one item late
IsFull_OneLate(current_batch, n) == Len(current_batch) = n + 1

\* line 88: len(current_batch) == n
IsFull(current_batch, n) == Len(current_batch) = n

\* line 97: iterable[ndx:min(ndx + n, l)]
Slice(items, ndx, n) == SubSeq(items, ndx + 1, Min(ndx + n, Len(items)))

InitBatch ==
    /\ bt_items \in {[i \in 1..k |-> i] : k \in 0..MaxItems}
    /\ bt_n \in ChunkSizes
    /\ slow = [pc |-> "loop", next |-> 1, current_batch |-> <<>>, yielded |-> <<>>]
    /\ fast = [pc |-> "loop", ndx |-> 0, yielded |-> <<>>]
    /\ TrainIdle
    /\ AttentionIdle
    /\ ResplitIdle
    /\ PadIdle
    /\ ParamsIdle

\* line 86-90: one iteration of the loop over the items
SlowItem ==
    /\ slow.pc = "loop"
    /\ slow.next <= Len(bt_items)
    /\ LET current_batch == Append(slow.current_batch, bt_items[slow.next])
       IN  slow' = IF IsFull(current_batch, bt_n)
                   THEN [slow EXCEPT !.next = @ + 1,
                                     !.yielded = Append(@, current_batch),
                                     !.current_batch = <<>>]
                   ELSE [slow EXCEPT !.next = @ + 1,
                                     !.current_batch = current_batch]
    /\ UNCHANGED <<bt_items, bt_n, fast>>
    /\ UNCHANGED notBtVars

\* line 91-92: the items are exhausted; what is left is yielded
SlowEnd ==
    /\ slow.pc = "loop"
    /\ slow.next > Len(bt_items)
    /\ slow' = IF slow.current_batch # <<>>
               THEN [slow EXCEPT !.pc = "done",
                                 !.yielded = Append(@, slow.current_batch)]
               ELSE [slow EXCEPT !.pc = "done"]
    /\ UNCHANGED <<bt_items, bt_n, fast>>
    /\ UNCHANGED notBtVars

\* line 96: range(0, l, n) with a step of 0 raises ValueError
FastRaise ==
    /\ fast.pc = "loop"
    /\ bt_n = 0
    /\ fast' = [fast EXCEPT !.pc = "raised"]
    /\ UNCHANGED <<bt_items, bt_n, slow>>
    /\ UNCHANGED notBtVars

\* line 95-97: one iteration of the loop over range(0, l, n)
FastSlice ==
    /\ fast.pc = "loop"
    /\ bt_n > 0
    /\ fast.ndx < Len(bt_items)
    /\ fast' = [fast EXCEPT !.ndx = @ + bt_n,
                            !.yielded = Append(@, Slice(bt_items, fast.ndx, bt_n))]
    /\ UNCHANGED <<bt_items, bt_n, slow>>
    /\ UNCHANGED notBtVars

\* line 96: the range is exhausted; with a negative step it is empty
FastEnd ==
    /\ fast.pc = "loop"
    /\ bt_n # 0
    /\ (bt_n < 0 \/ fast.ndx >= Len(bt_items))
    /\ fast' = [fast EXCEPT !.pc = "done"]
    /\ UNCHANGED <<bt_items, bt_n, slow>>
    /\ UNCHANGED notBtVars

NextBatch ==
    \/ SlowItem
    \/ SlowEnd
    \/ FastRaise
    \/ FastSlice
    \/ FastEnd

SpecBatch == InitBatch /\ [][NextBatch]_vars

RECURSIVE Concat(_)
Concat(q) == IF q = <<>> THEN <<>> ELSE Head(q) \o Concat(Tail(q))

\* chunks of exactly n items but the last, which has 1 to n; together the input
WellChunked(chunks, items, n) ==
    /\ \A i \in 1..Len(chunks) :
          IF i < Len(chunks) THEN Len(chunks[i]) = n
          ELSE Len(chunks[i]) >= 1 /\ Len(chunks[i]) <= n
    /\ Concat(chunks) = items
    /\ items = <<>> => chunks = <<>>

\* C12 as stated: for every chunk size n the accumulating path and the slicing
\* path yield the same chunks: consecutive, in input order, of exactly n items
\* each but the last, which has between 1 and n; their concatenation is the
\* input, and an empty input yields no chunk.
C12_BatchPathsAgree ==
    /\ fast.pc # "raised"
    /\ (slow.pc = "done" /\ fast.pc = "done") =>
          /\ slow.yielded = fast.yielded
          /\ WellChunked(slow.yielded, bt_items, bt_n)
          /\ WellChunked(fast.yielded, bt_items, bt_n)

\* all the items in one chunk, no chunk when there is no item
OneChunk(items) == IF items = <<>> THEN <<>> ELSE <<items>>

\* C12 as amended: for every chunk size n >= 1 the two paths yield the same
\* chunks, as stated, and while both run the chunks one has yielded are a
\* prefix of the other's. For n <= 0 they differ: the accumulating path yields
\* all the items in one chunk; the slicing path raises ValueError for n = 0 and
\* yields nothing for n < 0.
C12_BatchPathsAgreeForPositiveN ==
    /\ bt_n >= 1 =>
          /\ fast.pc # "raised"
          /\ (slow.pc = "done" /\ fast.pc = "done") =>
                /\ slow.yielded = fast.yielded
                /\ WellChunked(slow.yielded, bt_items, bt_n)
                /\ WellChunked(fast.yielded, bt_items, bt_n)
          /\ \A i \in 1..Min(Len(slow.yielded), Len(fast.yielded)) :
                slow.yielded[i] = fast.yielded[i]
    /\ bt_n <= 0 =>
          /\ slow.pc = "done" => slow.yielded = OneChunk(bt_items)
          /\ fast.yielded = <<>>
          /\ fast.pc = "raised" => bt_n = 0
          /\ fast.pc = "done" => bt_n < 0

C12_Witness ==
    /\ slow.pc = "done"
    /\ fast.pc = "done"
    /\ bt_items = <<1, 2, 3, 4>>
    /\ bt_n = 3
    /\ slow.yielded = <<<<1, 2, 3>>, <<4>>>>
    /\ fast.yielded = <<<<1, 2, 3>>, <<4>>>>

====
